---- MODULE Spec2Model ----
(***************************************************************************)
(* A model of the catalog server of src/server.js: the process-wide state  *)
(* (customOrder, selectedItems, searchCache) and its four request          *)
(* handlers, GET /api/items, POST /api/update-order,                       *)
(* POST /api/update-selection and GET /api/state.  Node runs each handler  *)
(* to completion, so each handler is one action.                           *)
(*                                                                         *)
(* JavaScript values are records tagged by k.  A number is n + f/2 with    *)
(* f in {0,1}, so that 1.5 (a JSON number that is no integer) is a value   *)
(* of the model; NaN is a value of its own.  Strings that the code         *)
(* inspects (query parameters, search terms) are sequences of characters.  *)
(***************************************************************************)
EXTENDS Integers, Sequences, FiniteSets, TLC

\* The size of the catalog: 1000000 in the source, scaled down.
N == 25
\* The cap on the matches one search scan collects: 1000 in the source, scaled down.
MaxMatches == 3
\* The upper clamp of limit.
MaxLimit == 100
\* The defaults of the page and limit query parameters.
DefaultPage == 1
DefaultLimit == 20

---------------------------------------------------------------------------
(* JavaScript values *)

Num(n, f) == [n |-> n, f |-> f, k |-> "num"]
IntNum(n) == Num(n, 0)
NaN == [k |-> "nan"]
Null == [k |-> "null"]
StrVal(s) == [k |-> "str", s |-> s]
Bool(b) == [k |-> "bool", b |-> b]
Arr(elems) == [k |-> "array", elems |-> elems]

\* typeof v
TypeOf(v) ==
    CASE v.k \in {"num", "nan"} -> "number"
      [] v.k = "str" -> "string"
      [] v.k = "bool" -> "boolean"
      [] OTHER -> "object"

\* Array.isArray(v)
IsArray(v) == v.k = "array"

\* a < b on numbers: false when either is NaN
Lt(a, b) == a.k = "num" /\ b.k = "num" /\ 2 * a.n + a.f < 2 * b.n + b.f

\* Math.max(a, b), Math.min(a, b): NaN when either argument is NaN
MathMax(a, b) == IF a.k = "nan" \/ b.k = "nan" THEN NaN ELSE IF Lt(a, b) THEN b ELSE a
MathMin(a, b) == IF a.k = "nan" \/ b.k = "nan" THEN NaN ELSE IF Lt(b, a) THEN b ELSE a

\* a - b, a + b, a * b on integers and NaN (the handler's index arithmetic)
NumSub(a, b) == IF a.k = "nan" \/ b.k = "nan" THEN NaN ELSE IntNum(a.n - b.n)
NumAdd(a, b) == IF a.k = "nan" \/ b.k = "nan" THEN NaN ELSE IntNum(a.n + b.n)
NumMul(a, b) == IF a.k = "nan" \/ b.k = "nan" THEN NaN ELSE IntNum(a.n * b.n)

\* JSON.stringify of a number in a response body: NaN is written as null
JsonNum(v) == IF v.k = "nan" THEN Null ELSE v

---------------------------------------------------------------------------
(* Strings *)

Digits == <<"0", "1", "2", "3", "4", "5", "6", "7", "8", "9">>
IsDigit(c) == \E d \in 1..10 : Digits[d] = c
DigitVal(c) == (CHOOSE d \in 1..10 : Digits[d] = c) - 1
IsSpace(c) == c \in {" ", "\t", "\n"}

\* `${id}` for a non-negative integer
RECURSIVE ToStr(_)
ToStr(n) == IF n < 10 THEN <<Digits[n + 1]>> ELSE ToStr(n \div 10) \o <<Digits[(n % 10) + 1]>>

UpperCase == <<"A", "B", "C", "X">>
LowerCase == <<"a", "b", "c", "x">>
LowerChar(c) ==
    IF \E i \in 1..Len(UpperCase) : UpperCase[i] = c
    THEN LowerCase[CHOOSE i \in 1..Len(UpperCase) : UpperCase[i] = c]
    ELSE c

\* s.toLowerCase()
ToLowerCase(s) == [i \in 1..Len(s) |-> LowerChar(s[i])]

RECURSIVE TrimStart(_)
TrimStart(s) == IF s # <<>> /\ IsSpace(Head(s)) THEN TrimStart(Tail(s)) ELSE s
RECURSIVE TrimEnd(_)
TrimEnd(s) == IF s # <<>> /\ IsSpace(s[Len(s)]) THEN TrimEnd(SubSeq(s, 1, Len(s) - 1)) ELSE s
\* s.trim()
Trim(s) == TrimEnd(TrimStart(s))

\* hay.includes(needle)
Includes(hay, needle) ==
    \E i \in 0..(Len(hay) - Len(needle)) : SubSeq(hay, i + 1, i + Len(needle)) = needle

\* The value of the longest prefix of digits of s, read from the left.
RECURSIVE DigitsValue(_, _)
DigitsValue(s, acc) ==
    IF s # <<>> /\ IsDigit(Head(s)) THEN DigitsValue(Tail(s), 10 * acc + DigitVal(Head(s))) ELSE acc

\* parseInt(s): leading white space is skipped, then an optional sign, then
\* the longest run of decimal digits; NaN when there is no digit.
ParseInt(s) ==
    LET t == TrimStart(s)
        neg == t # <<>> /\ Head(t) = "-"
        u == IF t # <<>> /\ Head(t) \in {"-", "+"} THEN Tail(t) ELSE t
    IN  IF u = <<>> \/ ~IsDigit(Head(u)) THEN NaN
        ELSE IntNum((IF neg THEN -1 ELSE 1) * DigitsValue(u, 0))

\* arr.slice(start, end): a NaN index counts as 0, a negative index counts
\* from the end, and indices are clipped to the array.
SliceIndex(v, len) ==
    IF v.k = "nan" THEN 0
    ELSE IF v.n < 0 THEN (IF len + v.n < 0 THEN 0 ELSE len + v.n)
    ELSE IF v.n > len THEN len ELSE v.n
Slice(arr, start, end) ==
    SubSeq(arr, SliceIndex(start, Len(arr)) + 1, SliceIndex(end, Len(arr)))

---------------------------------------------------------------------------
(* The state *)

VARIABLES
    customOrder,    \* state.customOrder: Null or an array
    selectedItems,  \* state.selectedItems: a Set, kept in insertion order
    searchCache,    \* state.searchCache: a Map from search term to {ids, total}
    req,            \* the request last handled
    locals,         \* the local variables of the handler at its end
    res             \* the response last sent

vars == <<customOrder, selectedItems, searchCache, req, locals, res>>
state == <<customOrder, selectedItems, searchCache>>

\* Set.prototype.has, add, delete, size and Array.from on the insertion-ordered Set
SetHas(s, v) == \E i \in 1..Len(s) : s[i] = v
\* An add that does not look for the value first.
SetAddAgain(s, v) == Append(s, v)
SetAdd(s, v) == IF SetHas(s, v) THEN s ELSE Append(s, v)
SetDelete(s, v) == SelectSeq(s, LAMBDA x : x # v)
SetSize(s) == Len(s)
ArrayFrom(s) == s

\* Map.prototype.has, get, set and clear
MapHas(m, key) == key \in DOMAIN m
MapGet(m, key) == m[key]
\* A set that drops the entries of the other keys.
MapSetOnly(m, key, v) == [x \in {key} |-> v]
MapSet(m, key, v) == [x \in (DOMAIN m) \cup {key} |-> IF x = key THEN v ELSE m[x]]
\* A clear that removes nothing.
KeepCache == searchCache
MapClear == <<>>

NoLocals == [op |-> "none"]

Init ==
    /\ customOrder = Null
    /\ selectedItems = <<>>
    /\ searchCache = <<>>
    /\ req = [op |-> "none"]
    /\ locals = NoLocals
    /\ res = [status |-> 0]

---------------------------------------------------------------------------
(* The inputs of the requests *)

\* A query parameter: absent, or the string given
Absent == [present |-> FALSE]
Given(s) == [s |-> s, present |-> TRUE]
QueryOr(q, default) == IF q.present THEN q.s ELSE default

PageInputs == {Absent, Given(<<"2">>), Given(<<"-", "3">>), Given(<<"a", "b", "c">>)}
LimitInputs == {Absent, Given(<<"2">>), Given(<<"0">>), Given(<<"1", "5", "0">>), Given(<<"x">>)}
SearchInputs == {Absent, Given(<<"1">>), Given(<<" ", "9", " ">>), Given(<<"A">>)}

\* The values a request body gives for an id
Half == Num(1, 1)
IdInputs ==
    {IntNum(9), Half, IntNum(0), IntNum(N + 1), Num(N, 1), StrVal(<<"9">>)}
SelectedInputs == {Bool(TRUE), Bool(FALSE)}

\* The values a request body gives for order
OrderInputs ==
    { Arr(<<>>),
      Arr(<<IntNum(5), IntNum(3), IntNum(9)>>),
      Arr(<<Half, IntNum(19), IntNum(9)>>),
      Arr(<<IntNum(2), IntNum(2)>>),
      Arr(<<IntNum(5), IntNum(0)>>),
      Arr(<<IntNum(1), StrVal(<<"3">>)>>),
      Arr(<<IntNum(3), IntNum(N + 1), IntNum(3)>>),
      Arr(<<IntNum(4), IntNum(4), IntNum(0)>>),
      StrVal(<<"5">>) }

---------------------------------------------------------------------------
(* Item synthesis *)

\* `${v}` for the values that reach a template
TemplateStr(v) ==
    CASE v.k = "num" /\ v.n >= 0 -> ToStr(v.n) \o (IF v.f = 1 THEN <<".", "5">> ELSE <<>>)
      [] v.k = "num" /\ v.n < 0 -> <<"-">> \o ToStr(-v.n)
      [] v.k = "str" -> v.s
      [] v.k = "nan" -> <<"N", "a", "N">>
      [] OTHER -> <<"n", "u", "l", "l">>

\* An item whose selected is not read from the Set.
generateItemUnselected(id) ==
    [ id |-> id,
      text |-> <<"I", "t", "e", "m", " ">> \o TemplateStr(id),
      selected |-> FALSE ]

generateItem(id) ==
    [ id |-> id,
      text |-> <<"I", "t", "e", "m", " ">> \o TemplateStr(id),
      selected |-> SetHas(selectedItems, id) ]

---------------------------------------------------------------------------
(* applyCustomOrder *)

\* new Set(ids)
SetOf(ids) == {ids[i] : i \in 1..Len(ids)}

\* A first loop that pushes every id of the custom order, candidate or not.
RECURSIVE CustomFirstAll(_, _, _, _)
CustomFirstAll(order, i, orderedIds, remainingIds) ==
    IF i > Len(order) THEN [orderedIds |-> orderedIds, remainingIds |-> remainingIds]
    ELSE CustomFirstAll(order, i + 1, Append(orderedIds, order[i]), remainingIds \ {order[i]})

\* The first loop: each id of the custom order that is still among the
\* remaining ids is pushed and deleted from them.
RECURSIVE CustomFirst(_, _, _, _)
CustomFirst(order, i, orderedIds, remainingIds) ==
    IF i > Len(order) THEN [orderedIds |-> orderedIds, remainingIds |-> remainingIds]
    ELSE IF order[i] \in remainingIds
    THEN CustomFirst(order, i + 1, Append(orderedIds, order[i]), remainingIds \ {order[i]})
    ELSE CustomFirst(order, i + 1, orderedIds, remainingIds)

\* A second loop that pushes every id of ids, remaining or not.
RECURSIVE RemainingAll(_, _, _, _)
RemainingAll(ids, i, orderedIds, remainingIds) ==
    IF i > Len(ids) THEN orderedIds
    ELSE RemainingAll(ids, i + 1, Append(orderedIds, ids[i]), remainingIds)

\* The second loop: each id of ids that is still among the remaining ids is pushed.
RECURSIVE RemainingInOrder(_, _, _, _)
RemainingInOrder(ids, i, orderedIds, remainingIds) ==
    IF i > Len(ids) THEN orderedIds
    ELSE IF ids[i] \in remainingIds
    THEN RemainingInOrder(ids, i + 1, Append(orderedIds, ids[i]), remainingIds)
    ELSE RemainingInOrder(ids, i + 1, orderedIds, remainingIds)

applyCustomOrder(ids) ==
    IF customOrder = Null THEN ids
    ELSE RemainingInOrder(ids, 1,
                          CustomFirst(customOrder.elems, 1, <<>>, SetOf(ids)).orderedIds,
                          CustomFirst(customOrder.elems, 1, <<>>, SetOf(ids)).remainingIds)

---------------------------------------------------------------------------
(* GET /api/items *)

\* The scan of a cache miss: ids 1..N in ascending order whose decimal form
\* includes the term, stopped once MaxMatches are collected.
\* A scan that stops one match late: length > cap in place of length >= cap.
RECURSIVE ScanFromLate(_, _, _)
ScanFromLate(id, searchTerm, matchIds) ==
    IF id > N THEN matchIds
    ELSE LET pushed == IF Includes(ToStr(id), searchTerm)
                       THEN Append(matchIds, IntNum(id))
                       ELSE matchIds
         IN  IF Len(pushed) > MaxMatches THEN pushed
             ELSE ScanFromLate(id + 1, searchTerm, pushed)

RECURSIVE ScanFrom(_, _, _)
ScanFrom(id, searchTerm, matchIds) ==
    IF id > N THEN matchIds
    ELSE LET pushed == IF Includes(ToStr(id), searchTerm)
                       THEN Append(matchIds, IntNum(id))
                       ELSE matchIds
         IN  IF Len(pushed) >= MaxMatches THEN pushed
             ELSE ScanFrom(id + 1, searchTerm, pushed)

\* The test without its length > 0.
UsesCustomOrderIfSet == customOrder # Null /\ IsArray(customOrder)

\* state.customOrder && Array.isArray(state.customOrder) && state.customOrder.length > 0
UsesCustomOrder ==
    customOrder # Null /\ IsArray(customOrder) /\ Len(customOrder.elems) > 0

\* Array.from({ length: N }, (_, i) => i + 1)
NaturalOrder == [i \in 1..N |-> IntNum(i)]

\* endIndex <= total in place of endIndex < total.
HasMoreOrEqual(endIndex, total) == ~Lt(IntNum(total), endIndex)

\* endIndex < total
HasMore(endIndex, total) == Lt(endIndex, IntNum(total))

\* const pageNum = Math.max(1, parseInt(page))
PageNum(page) == MathMax(IntNum(1), ParseInt(QueryOr(page, ToStr(DefaultPage))))

\* const limitNum = Math.max(1, Math.min(100, parseInt(limit)))
LimitNum(limit) ==
    MathMax(IntNum(1), MathMin(IntNum(MaxLimit), ParseInt(QueryOr(limit, ToStr(DefaultLimit)))))

\* The term lower-cased and not trimmed.
SearchTermUntrimmed(search) == ToLowerCase(QueryOr(search, <<>>))

\* const searchTerm = search.toLowerCase().trim()
SearchTerm(search) == Trim(ToLowerCase(QueryOr(search, <<>>)))

\* A handler that never looks in the cache.
BranchAlwaysScan(searchTerm) ==
    IF searchTerm # <<>> THEN "miss"
    ELSE IF UsesCustomOrder THEN "custom" ELSE "natural"

\* The branch of the if the handler takes.
Branch(searchTerm) ==
    IF searchTerm # <<>>
    THEN (IF MapHas(searchCache, searchTerm) THEN "hit" ELSE "miss")
    ELSE IF UsesCustomOrder THEN "custom" ELSE "natural"

\* Search results passed through applyCustomOrder.
ItemIdsOrdered(branch, searchTerm) ==
    CASE branch = "hit" -> applyCustomOrder(MapGet(searchCache, searchTerm).ids)
      [] branch = "miss" -> applyCustomOrder(ScanFrom(1, searchTerm, <<>>))
      [] branch = "custom" -> customOrder.elems
      [] OTHER -> NaturalOrder

\* itemIds and total at the end of the if.
ItemIds(branch, searchTerm) ==
    CASE branch = "hit" -> MapGet(searchCache, searchTerm).ids
      [] branch = "miss" -> ScanFrom(1, searchTerm, <<>>)
      [] branch = "custom" -> customOrder.elems
      [] OTHER -> NaturalOrder
Total(branch, searchTerm, itemIds) ==
    CASE branch = "hit" -> MapGet(searchCache, searchTerm).total
      [] branch = "miss" -> Len(itemIds)
      [] branch = "custom" -> Len(customOrder.elems)
      [] OTHER -> N

\* const startIndex = (pageNum - 1) * limitNum
StartIndex(pageNum, limitNum) == NumMul(NumSub(pageNum, IntNum(1)), limitNum)
\* const endIndex = startIndex + limitNum
EndIndex(startIndex, limitNum) == NumAdd(startIndex, limitNum)

\* The handler, from its request and the values it computes on the way to
\* its response and its write of the cache.
Respond(q, pageNum, limitNum, searchTerm, branch, itemIds, total, startIndex, endIndex, resultIds) ==
    /\ req' = q
    /\ locals' = [ op |-> "items", searchTerm |-> searchTerm, endIndex |-> endIndex,
                   total |-> total, branch |-> branch, itemIds |-> itemIds,
                   pageNum |-> pageNum, limitNum |-> limitNum,
                   startIndex |-> startIndex, resultIds |-> resultIds ]
    /\ searchCache' =
          IF branch = "miss"
          THEN MapSet(searchCache, searchTerm, [ids |-> itemIds, total |-> total])
          ELSE searchCache
    /\ res' = [ status |-> 200,
                total |-> total,
                page |-> JsonNum(pageNum),
                limit |-> Len(resultIds),
                items |-> [i \in 1..Len(resultIds) |-> generateItem(resultIds[i])],
                hasMore |-> HasMore(endIndex, total) ]
    /\ UNCHANGED <<customOrder, selectedItems>>

GetItems(page, limit, search) ==
    \E pageNum \in {PageNum(page)}, limitNum \in {LimitNum(limit)},
       searchTerm \in {SearchTerm(search)} :
    \E branch \in {Branch(searchTerm)} :
    \E itemIds \in {ItemIds(branch, searchTerm)} :
    \E total \in {Total(branch, searchTerm, itemIds)},
       startIndex \in {StartIndex(pageNum, limitNum)} :
    \E endIndex \in {EndIndex(startIndex, limitNum)} :
    \E resultIds \in {Slice(itemIds, startIndex, endIndex)} :
        Respond([op |-> "items", page |-> page, limit |-> limit, search |-> search],
                pageNum, limitNum, searchTerm, branch, itemIds, total,
                startIndex, endIndex, resultIds)

---------------------------------------------------------------------------
(* POST /api/update-order *)

\* The validation loop: the first element that is no number in [1,N], or
\* that the loop has seen before, ends it with an error.
RECURSIVE ValidateOrder(_, _, _)
ValidateOrder(order, i, idSet) ==
    IF i > Len(order) THEN [ok |-> TRUE]
    ELSE LET id == order[i]
         IN  IF TypeOf(id) # "number" \/ Lt(id, IntNum(1)) \/ Lt(IntNum(N), id)
             THEN [id |-> TemplateStr(id), ok |-> FALSE, error |-> "Invalid ID: "]
             ELSE IF id \in idSet
             THEN [id |-> TemplateStr(id), ok |-> FALSE, error |-> "Duplicate ID: "]
             ELSE ValidateOrder(order, i + 1, idSet \cup {id})

UpdateOrder(order) ==
    /\ req' = [op |-> "update-order", order |-> order]
    \* cleared records the keys the cache held when the handler ran
    /\ locals' = [op |-> "update-order", cleared |-> DOMAIN searchCache]
    /\ IF ~IsArray(order)
       THEN /\ res' = [status |-> 400, error |-> "Order must be an array"]
            /\ UNCHANGED state
       ELSE LET v == ValidateOrder(order.elems, 1, {})
            IN  IF ~v.ok
                THEN /\ res' = [status |-> 400, id |-> v.id, error |-> v.error]
                     /\ UNCHANGED state
                ELSE /\ customOrder' = order
                     /\ searchCache' = MapClear
                     /\ res' = [status |-> 200, success |-> TRUE, count |-> Len(order.elems)]
                     /\ UNCHANGED selectedItems

---------------------------------------------------------------------------
(* POST /api/update-selection *)

\* typeof id !== 'number' || id < 1 || id > N
InvalidItemId(id) == TypeOf(id) # "number" \/ Lt(id, IntNum(1)) \/ Lt(IntNum(N), id)

\* if (selected) add else delete
Toggle(s, id, selected) == IF selected.b THEN SetAdd(s, id) ELSE SetDelete(s, id)

UpdateSelection(id, selected) ==
    /\ req' = [op |-> "update-selection", id |-> id, selected |-> selected]
    /\ locals' = NoLocals
    /\ IF InvalidItemId(id)
       THEN /\ res' = [status |-> 400, error |-> "Invalid item ID"]
            /\ UNCHANGED state
       ELSE /\ selectedItems' = Toggle(selectedItems, id, selected)
            /\ res' = [ status |-> 200, selected |-> selected, success |-> TRUE,
                        selectedCount |-> SetSize(selectedItems') ]
            /\ UNCHANGED <<customOrder, searchCache>>

---------------------------------------------------------------------------
(* GET /api/state *)

GetState ==
    /\ req' = [op |-> "state"]
    /\ locals' = NoLocals
    /\ res' = [ status |-> 200, selected |-> ArrayFrom(selectedItems),
                selectedCount |-> SetSize(selectedItems),
                hasCustomOrder |-> customOrder # Null ]
    /\ UNCHANGED state

---------------------------------------------------------------------------

Next ==
    \/ \E page \in PageInputs, limit \in LimitInputs, search \in SearchInputs :
          GetItems(page, limit, search)
    \/ \E order \in OrderInputs : UpdateOrder(order)
    \/ \E id \in IdInputs, selected \in SelectedInputs : UpdateSelection(id, selected)
    \/ GetState

Spec == Init /\ [][Next]_vars

---------------------------------------------------------------------------
(* The handlers statement by statement where the update of the order is     *)
(* concerned: the assignment of state.customOrder and the clear of the      *)
(* cache are two steps.  The handlers are synchronous functions (no await,  *)
(* no callback), so Node's event loop starts a handler only when the one    *)
(* before it has returned.  A response status of 0 stands for a handler     *)
(* that has not answered yet.                                               *)

\* A handler that starts while another has not returned.
HandlerAnytime == TRUE

\* The handler before has returned (or none has run).
HandlerReturned == req.op = "none" \/ res.status # 0

\* POST /api/update-order up to and including state.customOrder = order
UpdateOrderInstall(order) ==
    IF ~IsArray(order) \/ ~ValidateOrder(order.elems, 1, {}).ok
    THEN UpdateOrder(order)
    ELSE /\ req' = [op |-> "update-order", order |-> order]
         /\ locals' = [op |-> "update-order", cleared |-> DOMAIN searchCache]
         /\ customOrder' = order
         /\ res' = [status |-> 0]
         /\ UNCHANGED <<selectedItems, searchCache>>

\* POST /api/update-order from state.searchCache.clear() to its response
UpdateOrderClear ==
    /\ req.op = "update-order"
    /\ res.status = 0
    /\ searchCache' = MapClear
    /\ res' = [status |-> 200, success |-> TRUE, count |-> Len(req.order.elems)]
    /\ UNCHANGED <<customOrder, selectedItems, req, locals>>

NextSteps ==
    \/ /\ HandlerReturned
       /\ \E page \in PageInputs, limit \in LimitInputs, search \in SearchInputs :
             GetItems(page, limit, search)
    \/ /\ HandlerReturned
       /\ \E order \in OrderInputs : UpdateOrderInstall(order)
    \/ /\ HandlerReturned
       /\ \E id \in IdInputs, selected \in SelectedInputs : UpdateSelection(id, selected)
    \/ /\ HandlerReturned
       /\ GetState
    \/ UpdateOrderClear

SpecSteps == Init /\ [][NextSteps]_vars

---------------------------------------------------------------------------
(* applyCustomOrder on its own: the custom order is any duplicate-free      *)
(* sequence of ids (or none), and the function is applied to any sequence   *)
(* of candidate ids.                                                        *)

\* The ids and the lengths of the sequences tried.
ResolveMaxId == 3
ResolveMaxLen == 3

SeqsUpTo(S, n) == UNION {[1..k -> S] : k \in 0..n}
ResolveIds == {IntNum(i) : i \in 1..ResolveMaxId}
CandidateInputs == SeqsUpTo(ResolveIds, ResolveMaxLen)
ResolveOrders ==
    {Null} \cup
    {Arr(o) : o \in {s \in SeqsUpTo(ResolveIds, ResolveMaxLen) :
                        \A i, j \in 1..Len(s) : s[i] = s[j] => i = j}}

InitResolve ==
    /\ customOrder \in ResolveOrders
    /\ selectedItems = <<>>
    /\ searchCache = <<>>
    /\ req = [op |-> "none"]
    /\ locals = NoLocals
    /\ res = [status |-> 0]

Resolve(ids) ==
    /\ req' = [op |-> "applyCustomOrder", ids |-> ids]
    /\ locals' = NoLocals
    /\ res' = [status |-> 0, result |-> applyCustomOrder(ids)]
    /\ UNCHANGED state

NextResolve == \E ids \in CandidateInputs : Resolve(ids)

SpecResolve == InitResolve /\ [][NextResolve]_vars

---------------------------------------------------------------------------
(* What the claims speak of *)

\* An id of the catalog: an integer in [1,N]
IsValidId(v) == v.k = "num" /\ v.f = 0 /\ v.n >= 1 /\ v.n <= N

\* A number that is an integer (and not NaN)
IsInteger(v) == v.k = "num" /\ v.f = 0

Range(s) == {s[i] : i \in 1..Len(s)}
NoDuplicates(s) == \A i, j \in 1..Len(s) : s[i] = s[j] => i = j
Ids(items) == [i \in 1..Len(items) |-> items[i].id]

\* Element i of elems offends: it is no valid id, or it repeats an earlier element.
Offends(elems, i) == ~IsValidId(elems[i]) \/ \E j \in 1..(i - 1) : elems[j] = elems[i]
HasOffender(elems) == \E i \in 1..Len(elems) : Offends(elems, i)
FirstOffender(elems) ==
    CHOOSE i \in 1..Len(elems) : Offends(elems, i) /\ \A j \in 1..(i - 1) : ~Offends(elems, j)

\* The numbers a query parameter denotes as a plain decimal numeral in 1..MaxLimit
\* (the default when it is absent).
Denoted(q, default) ==
    IF q.present THEN {p \in 1..MaxLimit : ToStr(p) = q.s} ELSE {default}

\* Page p of seq, l to the page: the elements at [(p-1)*l, (p-1)*l + l).
PageOf(seq, p, l) ==
    [i \in 1..(IF (p - 1) * l >= Len(seq) THEN 0
               ELSE IF (p - 1) * l + l > Len(seq) THEN Len(seq) - (p - 1) * l
               ELSE l) |-> seq[(p - 1) * l + i]]

\* o first, then the ids of 1..N that are not in o, ascending
OrderThenRest(o) ==
    o \o SelectSeq([i \in 1..N |-> IntNum(i)], LAMBDA v : v \notin Range(o))

SetOrderSucceeded == req.op = "update-order" /\ res.status = 200
ListedItems == req.op = "items"

---------------------------------------------------------------------------
(* C1 *)

\* C1: an update-order whose array holds a duplicate or an element that is
\* no integer in [1,N] is answered 400, the error names the first such
\* element in scan order, and the state is what it was before the call.
C1_SetOrderRejectsOffenders ==
    [][\A order \in OrderInputs :
          (UpdateOrder(order) /\ IsArray(order) /\ HasOffender(order.elems))
          => /\ res'.status = 400
             /\ res'.id = TemplateStr(order.elems[FirstOffender(order.elems)])
             /\ UNCHANGED state]_vars

---------------------------------------------------------------------------
(* C2 *)

\* C2: right after a successful update-order the search cache is empty, and
\* an items request with a search term that comes next takes the miss
\* branch and stores its entry again.
C2_OrderClearsCache ==
    /\ [](SetOrderSucceeded => DOMAIN searchCache = {})
    /\ [][(SetOrderSucceeded /\ req'.op = "items" /\ locals'.searchTerm # <<>>)
          => (locals'.branch = "miss" /\ MapHas(searchCache', locals'.searchTerm))]_vars

\* A successful update-order has just cleared a cache that held entries.
C2_Witness ==
    SetOrderSucceeded /\ locals.cleared # {} /\ DOMAIN searchCache = {}

---------------------------------------------------------------------------
(* C3 *)

\* C3: with a non-empty custom order o set, an items request with an empty
\* search returns the page of: o, then the ids of 1..N not in o, ascending.
C3_OrderThenRemaining ==
    (/\ ListedItems
     /\ locals.searchTerm = <<>>
     /\ customOrder # Null
     /\ customOrder.elems # <<>>
     /\ \A i \in 1..Len(customOrder.elems) : IsValidId(customOrder.elems[i])
     /\ locals.pageNum.k = "num"
     /\ locals.limitNum.k = "num")
    => Ids(res.items) =
         PageOf(OrderThenRest(customOrder.elems), locals.pageNum.n, locals.limitNum.n)

---------------------------------------------------------------------------
(* C4 *)

\* C4: with an empty normalized search, a custom order that is present and
\* non-empty is the id sequence of the request and its length the total;
\* otherwise the sequence is 1..N and the total N.
C4_EffectiveSequence ==
    (ListedItems /\ locals.searchTerm = <<>>)
    => IF customOrder # Null /\ customOrder.elems # <<>>
       THEN /\ locals.itemIds = customOrder.elems
            /\ res.total = Len(customOrder.elems)
            /\ \A p \in Denoted(req.page, DefaultPage), l \in Denoted(req.limit, DefaultLimit) :
                  Ids(res.items) = PageOf(customOrder.elems, p, l)
       ELSE /\ locals.itemIds = [i \in 1..N |-> IntNum(i)]
            /\ res.total = N
            /\ \A p \in Denoted(req.page, DefaultPage), l \in Denoted(req.limit, DefaultLimit) :
                  Ids(res.items) = PageOf([i \in 1..N |-> IntNum(i)], p, l)

\* An items request without search was answered from a non-empty custom order.
C4_Witness ==
    /\ ListedItems
    /\ locals.searchTerm = <<>>
    /\ customOrder # Null
    /\ customOrder.elems # <<>>
    /\ Denoted(req.page, DefaultPage) # {}
    /\ Denoted(req.limit, DefaultLimit) # {}
    /\ res.items # <<>>

---------------------------------------------------------------------------
(* C5 *)

\* C5: for a page p >= 1 and a limit l in [1,100] the items are the elements
\* of the request's id sequence at [(p-1)*l, (p-1)*l + l), none (and no
\* error) when that range is past the end, and hasMore is (p-1)*l + l < total;
\* with no custom order and no search, page 1 of 20 is ids 1..20 with total N
\* and hasMore true.
C5_Pagination ==
    ListedItems =>
      /\ \A p \in Denoted(req.page, DefaultPage), l \in Denoted(req.limit, DefaultLimit) :
            /\ res.status = 200
            /\ Ids(res.items) = PageOf(locals.itemIds, p, l)
            /\ ((p - 1) * l >= Len(locals.itemIds) => res.items = <<>>)
            /\ res.hasMore = ((p - 1) * l + l < res.total)
      /\ (/\ req.page \in {Absent, Given(<<"1">>)}
          /\ req.limit \in {Absent, Given(<<"2", "0">>)}
          /\ locals.searchTerm = <<>>
          /\ customOrder = Null)
         => /\ Ids(res.items) = [i \in 1..20 |-> IntNum(i)]
            /\ res.total = N
            /\ res.hasMore

\* A page past the first was cut from a sequence that ends inside it.
C5_Witness ==
    /\ ListedItems
    /\ \E p \in Denoted(req.page, DefaultPage), l \in Denoted(req.limit, DefaultLimit) :
          /\ p > 1
          /\ (p - 1) * l < Len(locals.itemIds)
          /\ (p - 1) * l + l > Len(locals.itemIds)
    /\ res.items # <<>>
    /\ ~res.hasMore

---------------------------------------------------------------------------
(* C6 *)

\* C6: whatever page and limit are given, the items request is answered 200
\* and runs with a page that is an integer >= 1 and a limit that is an
\* integer in [1,100].
C6_PageAndLimitClamped ==
    ListedItems =>
      /\ res.status = 200
      /\ IsInteger(locals.pageNum) /\ locals.pageNum.n >= 1
      /\ IsInteger(locals.limitNum) /\ locals.limitNum.n >= 1 /\ locals.limitNum.n <= 100

---------------------------------------------------------------------------
(* C7 *)

\* C7: every item of an items response has the id sliced for its place and
\* selected equal to that id's membership in selectedItems at the call,
\* whichever branch gave the id sequence.
C7_ItemsAreSynthesized ==
    ListedItems =>
      /\ Len(res.items) = Len(locals.resultIds)
      /\ \A i \in 1..Len(res.items) :
            /\ res.items[i].id = locals.resultIds[i]
            /\ res.items[i].selected = (res.items[i].id \in Range(selectedItems))

\* A request answered from the cache returned a selected item.
C7_Witness ==
    /\ ListedItems
    /\ locals.branch = "hit"
    /\ \E i \in 1..Len(res.items) : res.items[i].selected

---------------------------------------------------------------------------
(* C8 *)

\* C8: for a valid id, update-selection with selected true adds the id and
\* changes nothing when it is there already, with selected false removes it
\* and changes nothing when it is absent, and answers the size of the
\* resulting set; GET /api/state reports that size and exactly the members.
C8_Selection ==
    /\ [][\A id \in IdInputs, selected \in SelectedInputs :
            (UpdateSelection(id, selected) /\ IsValidId(id))
            => /\ res'.status = 200
               /\ Range(selectedItems') =
                    IF selected.b THEN Range(selectedItems) \cup {id}
                    ELSE Range(selectedItems) \ {id}
               /\ (selected.b = (id \in Range(selectedItems))
                   => selectedItems' = selectedItems)
               /\ NoDuplicates(selectedItems')
               /\ res'.selectedCount = Cardinality(Range(selectedItems'))]_vars
    /\ [](req.op = "state"
          => /\ res.selectedCount = Cardinality(Range(selectedItems))
             /\ Range(res.selected) = Range(selectedItems)
             /\ Len(res.selected) = res.selectedCount)

\* A valid id was selected and is the one member reported.
C8_Witness ==
    /\ req.op = "update-selection"
    /\ IsValidId(req.id)
    /\ req.selected.b
    /\ res.status = 200
    /\ res.selectedCount = 1
    /\ selectedItems = <<req.id>>

---------------------------------------------------------------------------
(* C9 *)

\* C9: customOrder is absent or a duplicate-free sequence of integers in
\* [1,N], and it changes only to the argument of a successful update-order.
C9_CustomOrderInvariant ==
    /\ [](customOrder # Null
          => /\ \A i \in 1..Len(customOrder.elems) : IsValidId(customOrder.elems[i])
             /\ NoDuplicates(customOrder.elems))
    /\ [][customOrder' # customOrder
          => (req'.op = "update-order" /\ res'.status = 200 /\ customOrder' = req'.order)]_vars

---------------------------------------------------------------------------
(* C10 *)

\* C10: update-selection with an id that is no integer in [1,N] is answered
\* 400 and leaves selectedItems as it was, so every member of selectedItems
\* is an integer in [1,N].
C10_SelectionHoldsValidIds ==
    /\ [][\A id \in IdInputs, selected \in SelectedInputs :
            (UpdateSelection(id, selected) /\ ~IsValidId(id))
            => (res'.status = 400 /\ selectedItems' = selectedItems)]_vars
    /\ [](\A i \in 1..Len(selectedItems) : IsValidId(selectedItems[i]))

---------------------------------------------------------------------------
(* C11 *)

\* needle occurs in hay as a run of consecutive characters
Contains(hay, needle) ==
    \E i, j \in 1..Len(hay) :
        i <= j /\ [x \in 1..(j - i + 1) |-> hay[i + x - 1]] = needle

\* All ids of 1..N whose decimal form contains the term, ascending, and the
\* first MaxMatches of them.
MatchingIds(term) ==
    SelectSeq([i \in 1..N |-> IntNum(i)], LAMBDA v : Contains(ToStr(v.n), term))
FirstMatches(term) ==
    [i \in 1..(IF Len(MatchingIds(term)) < MaxMatches THEN Len(MatchingIds(term))
               ELSE MaxMatches) |-> MatchingIds(term)[i]]

\* C11: on a cache miss the id sequence is the first min(cap, matches) ids of
\* 1..N, ascending, whose decimal form contains the term, and the total is
\* its length, never above the cap.
C11_MissScan ==
    (ListedItems /\ locals.branch = "miss")
    => /\ locals.searchTerm # <<>>
       /\ locals.itemIds = FirstMatches(locals.searchTerm)
       /\ res.total = Len(locals.itemIds)
       /\ res.total <= MaxMatches

\* A miss for a term that more ids match than the cap lets through.
C11_Witness ==
    /\ ListedItems
    /\ locals.branch = "miss"
    /\ Len(MatchingIds(locals.searchTerm)) > MaxMatches
    /\ res.total = MaxMatches

---------------------------------------------------------------------------
(* C12 *)

\* C12: a step that is no successful update-order keeps every cache entry as
\* it is, and an items request whose search normalizes to a cached term
\* takes the hit branch and returns the stored ids and total.
C12_CachePersists ==
    [][~(\E order \in OrderInputs : UpdateOrder(order) /\ res'.status = 200)
       => \A term \in DOMAIN searchCache :
            /\ term \in DOMAIN searchCache'
            /\ searchCache'[term] = searchCache[term]
            /\ (req'.op = "items" /\ locals'.searchTerm = term)
               => /\ locals'.branch = "hit"
                  /\ locals'.itemIds = searchCache[term].ids
                  /\ res'.total = searchCache[term].total
                  /\ Ids(res'.items) =
                       Slice(searchCache[term].ids, locals'.startIndex, locals'.endIndex)]_vars

\* A request was answered from the entry of a term its search string only
\* normalizes to.
C12_Witness ==
    /\ ListedItems
    /\ locals.branch = "hit"
    /\ req.search.s # locals.searchTerm
    /\ res.items # <<>>

---------------------------------------------------------------------------
(* C13 *)

Ascending(ids) == \A i, j \in 1..Len(ids) : i < j => Lt(ids[i], ids[j])

\* C13: with a non-empty normalized search the returned ids are ascending,
\* and ids, total and hasMore are what the request alone gives (its page,
\* limit and search), whatever customOrder is.
C13_SearchIgnoresOrder ==
    (ListedItems /\ locals.searchTerm # <<>>)
    => /\ Ascending(Ids(res.items))
       /\ Ids(res.items) =
            Slice(FirstMatches(Trim(ToLowerCase(req.search.s))),
                  StartIndex(PageNum(req.page), LimitNum(req.limit)),
                  EndIndex(StartIndex(PageNum(req.page), LimitNum(req.limit)),
                           LimitNum(req.limit)))
       /\ res.total = Len(FirstMatches(Trim(ToLowerCase(req.search.s))))
       /\ res.hasMore =
            Lt(EndIndex(StartIndex(PageNum(req.page), LimitNum(req.limit)),
                        LimitNum(req.limit)),
               IntNum(Len(FirstMatches(Trim(ToLowerCase(req.search.s))))))

\* A search returned two ids in ascending order that the custom order in
\* force lists the other way round.
C13_Witness ==
    /\ ListedItems
    /\ locals.searchTerm # <<>>
    /\ customOrder # Null
    /\ \E a, b \in 1..Len(res.items), x, y \in 1..Len(customOrder.elems) :
          /\ a < b
          /\ y < x
          /\ customOrder.elems[x] = res.items[a].id
          /\ customOrder.elems[y] = res.items[b].id

---------------------------------------------------------------------------
(* C14 *)

Resolved == req.op = "applyCustomOrder"
Count(v, s) == Cardinality({i \in 1..Len(s) : s[i] = v})
SameMultiset(s, t) == \A v \in Range(s) \cup Range(t) : Count(v, s) = Count(v, t)

\* C14 as claimed: for every candidate sequence the result of
\* applyCustomOrder holds the same ids with the same multiplicities.
C14_PermutationOfAny ==
    Resolved => SameMultiset(res.result, req.ids)

\* C14 as amended: for every duplicate-free candidate sequence the result
\* holds the same ids with the same multiplicities, none added from the
\* custom order.
C14_PermutationOfDistinct ==
    (Resolved /\ NoDuplicates(req.ids))
    => /\ SameMultiset(res.result, req.ids)
       /\ Range(res.result) \subseteq Range(req.ids)
       /\ Len(res.result) = Len(req.ids)

\* Distinct candidates were reordered under a custom order that also holds
\* an id that is no candidate.
C14_Witness ==
    /\ Resolved
    /\ NoDuplicates(req.ids)
    /\ customOrder # Null
    /\ res.result # req.ids
    /\ \E v \in Range(customOrder.elems) : v \notin Range(req.ids)

---------------------------------------------------------------------------
(* C15 *)

\* C15: without a custom order the candidates come back unchanged; with one,
\* the result is the ids of the custom order that are candidates, in its
\* order, then the candidates not in it in their own order, so that no id
\* outside the custom order precedes one inside it.
C15_CustomFirstThenRest ==
    Resolved =>
      IF customOrder = Null THEN res.result = req.ids
      ELSE /\ res.result =
                SelectSeq(customOrder.elems, LAMBDA v : v \in Range(req.ids))
                \o SelectSeq(req.ids, LAMBDA v : v \notin Range(customOrder.elems))
           /\ \A i, j \in 1..Len(res.result) :
                 (i < j /\ res.result[j] \in Range(customOrder.elems))
                 => res.result[i] \in Range(customOrder.elems)

\* Ids of the custom order were moved in front of candidates outside it.
C15_Witness ==
    /\ Resolved
    /\ customOrder # Null
    /\ res.result # req.ids
    /\ \E i, j \in 1..Len(res.result) :
          /\ i < j
          /\ res.result[i] \in Range(customOrder.elems)
          /\ res.result[j] \notin Range(customOrder.elems)

---------------------------------------------------------------------------
(* C16 *)

\* The new custom order is installed and the cache still holds entries
\* stored before it.
OrderInstalledCacheStale ==
    /\ req.op = "update-order"
    /\ res.status = 0
    /\ customOrder = req.order
    /\ DOMAIN searchCache # {}

\* C16: no items request and no state request runs in a state in which an
\* update-order has installed the new custom order and not yet cleared the
\* cache (a step whose request is an items or a state request is the run of
\* that handler, which observes the state the step starts in).
C16_NoHalfAppliedOrder ==
    [][req'.op \in {"items", "state"} => ~OrderInstalledCacheStale]_vars

\* The half-applied state exists between the two statements of update-order.
C16_Witness == OrderInstalledCacheStale /\ locals.cleared # {}

---------------------------------------------------------------------------
(* C17 *)

\* A term as the handler normalizes it: not empty, no white space at either
\* end, no upper-case letter.
IsNormalized(term) ==
    /\ term # <<>>
    /\ ~IsSpace(term[1])
    /\ ~IsSpace(term[Len(term)])
    /\ \A i \in 1..Len(term) : \A u \in 1..Len(UpperCase) : term[i] # UpperCase[u]

\* C17: every cache entry has a non-empty normalized key and holds the ids
\* and the total the scan of a miss computes for that key, so a request
\* answered from the cache gets what the scan would give it.
C17_CacheFresh ==
    /\ \A term \in DOMAIN searchCache :
          /\ IsNormalized(term)
          /\ searchCache[term].ids = ScanFrom(1, term, <<>>)
          /\ searchCache[term].total = Len(ScanFrom(1, term, <<>>))
    /\ (ListedItems /\ locals.branch = "hit")
       => /\ locals.itemIds = ScanFrom(1, locals.searchTerm, <<>>)
          /\ res.total = Len(ScanFrom(1, locals.searchTerm, <<>>))

\* A request was answered from a cache of several entries, filled after a
\* custom order was set.
C17_Witness ==
    /\ ListedItems
    /\ locals.branch = "hit"
    /\ customOrder # Null
    /\ Cardinality(DOMAIN searchCache) >= 2

---------------------------------------------------------------------------
(* C18 *)

\* C18: the page and limit of an items response are the clamped page and the
\* clamped limit the slice was cut with, however many items the slice holds.
C18_ResponseEchoesPageAndLimit ==
    (ListedItems /\ locals.pageNum.k = "num" /\ locals.limitNum.k = "num")
    => /\ res.page = locals.pageNum
       /\ res.limit = locals.limitNum.n

---------------------------------------------------------------------------
(* C19 *)

\* C19: hasCustomOrder of a state response is true exactly when an items
\* request with an empty search takes its ids from customOrder, and false
\* exactly when it uses 1..N with total N.
C19_HasCustomOrderAgrees ==
    /\ req.op = "state" => res.hasCustomOrder = UsesCustomOrder
    /\ (ListedItems /\ locals.searchTerm = <<>>)
       => /\ (locals.branch = "custom") = (customOrder # Null)
          /\ (customOrder = Null)
             = (locals.itemIds = [i \in 1..N |-> IntNum(i)] /\ res.total = N)

---------------------------------------------------------------------------
(* C20 *)

\* C20: update-selection leaves customOrder and the cache as they are,
\* update-order leaves selectedItems as it is, an items request leaves
\* customOrder and selectedItems as they are and at most adds the cache
\* entry of its own normalized term, and a state request changes nothing.
C20_Frames ==
    [][/\ req'.op = "update-selection"
          => (customOrder' = customOrder /\ searchCache' = searchCache)
       /\ req'.op = "update-order" => selectedItems' = selectedItems
       /\ req'.op = "items"
          => /\ customOrder' = customOrder
             /\ selectedItems' = selectedItems
             /\ \/ searchCache' = searchCache
                \/ /\ locals'.searchTerm \notin DOMAIN searchCache
                   /\ DOMAIN searchCache' = DOMAIN searchCache \cup {locals'.searchTerm}
                   /\ \A term \in DOMAIN searchCache : searchCache'[term] = searchCache[term]
       /\ req'.op = "state" => UNCHANGED state]_vars

\* An items request added its entry to a cache that held another, with a
\* custom order and a selection in place.
C20_Witness ==
    /\ ListedItems
    /\ locals.branch = "miss"
    /\ Cardinality(DOMAIN searchCache) >= 2
    /\ customOrder # Null
    /\ selectedItems # <<>>

====
